---- MODULE Spec2Model ----
(***************************************************************************)
(* Wallet ledger of the virtual betting site: Wallet / Transaction rows,   *)
(* Wallet.deduct / Wallet.credit, the WalletManager service, the deposit   *)
(* and withdrawal endpoints and the coin-flip home view, run by concurrent *)
(* request processes against one relational store.                         *)
(*                                                                         *)
(* Money is counted in whole units; one unit stands for 500.00, so that    *)
(* the default opening balance 1000.00 is 2 units.                         *)
(*                                                                         *)
(* Store model.  wallets[u].balance is the committed column value that a   *)
(* plain SELECT returns; dirty[u] is the newest version of the column,     *)
(* which differs from the committed one only while the process lock[u]     *)
(* has an open transaction on the row.  A Transaction row carries the      *)
(* process whose open transaction inserted it (owner), NoProc once it is   *)
(* committed; txns is in creation (INSERT) order.                          *)
(***************************************************************************)
EXTENDS Integers, Sequences, FiniteSets, TLC

\* ---- bounds -----------------------------------------------------------
\* request processes that can be in progress at once
NProcs == 2
\* requests in one run (the one that creates a user's wallet is not counted)
MaxOps == 2
\* largest opening balance of the concurrent-debit scenario (SpecDebits)
MaxB == 3

\* ---- program constants ------------------------------------------------
\* Wallet.balance default 1000.00 (models.py:17)
DefaultBalance == 2
\* add_funds refuses more than 10000 (views.py:110)
MaxDeposit == 20

Procs == 1..NProcs
Users == {1, 2}
NoProc == 0
\* amounts a request may carry; the service and the Wallet methods are called
\* with positive amounts
AmountInputs == {0, 1, 2}
PositiveAmounts == {1, 2}
InitialBalances == 1..DefaultBalance
\* bet_id = None, and the ids a caller may pass
NoBetId == -1
BetIds == {0, 1}

CREDIT == "credit"
DEBIT == "debit"
COMPLETED == "completed"

VARIABLES accounts, wallets, dirty, lock, txns, pc, op, usr, amt, bet_id, w, res, ret, nops,
          ser, scen, bets, games, stats, game, st

vars == <<accounts, wallets, dirty, lock, txns, pc, op, usr, amt, bet_id, w, res, ret, nops,
          ser, scen, bets, games, stats, game, st>>

\* ---- rows and values --------------------------------------------------
NoWalletRow == [exists |-> FALSE, balance |-> 0, is_active |-> FALSE]

NoWallet == [balance |-> 0, is_active |-> FALSE, isfloat |-> FALSE]

NoTxn == [wallet |-> 0, transaction_type |-> "none", amount |-> 0,
          balance_after |-> 0, status |-> "none", description |-> "none",
          owner |-> NoProc]

NoRes == [ok |-> FALSE, msg |-> "none", txn |-> NoTxn, raised |-> FALSE]

\* the response of the call that returned in the step just taken, if one did
NoRet == [proc |-> NoProc, op |-> "none", usr |-> 0, amt |-> 0, res |-> NoRes]

Txn(u, type, amount, balance_after, description, owner) ==
    [wallet |-> u, transaction_type |-> type, amount |-> amount,
     balance_after |-> balance_after, status |-> COMPLETED,
     description |-> description, owner |-> owner]

\* what a call returns; raised: it ended by an exception its caller sees
Result(ok, msg, txn) == [ok |-> ok, msg |-> msg, txn |-> txn, raised |-> FALSE]

Raised(msg) == [ok |-> FALSE, msg |-> msg, txn |-> NoTxn, raised |-> TRUE]

catches_missing_wallet_only(o, exception) == exception = "DoesNotExist"

catches_all_but_missing_wallet(o, exception) == exception # "DoesNotExist"

\* the except clauses around the call: process_bet_placement / _winning catch
\* Wallet.DoesNotExist and Exception (models.py 190-193, 214-217), add_funds
\* and withdraw_funds catch ValueError and Exception (views.py 136-140,
\* 184-194); a direct caller of deduct / credit catches nothing
catches(o, exception) == o \in {"pbp", "pbw", "add", "withdraw"}

\* the outcome of an exception raised inside the call o
Failure(o, exception, msg) ==
    IF catches(o, exception) THEN Result(FALSE, msg, NoTxn) ELSE Raised(msg)

Committed(r) == [r EXCEPT !.owner = NoProc]

\* the Wallet object a query builds from the row of user u
Loaded(u) == [balance |-> wallets[u].balance, is_active |-> wallets[u].is_active,
              isfloat |-> FALSE]

\* committed rows of wallet u among the rows T, in creation order
RowsOf(T, u) == SelectSeq(T, LAMBDA r : r.wallet = u /\ r.owner = NoProc)

Log(u) == RowsOf(txns, u)

\* ---- Wallet methods ---------------------------------------------------
\* variants of the methods below, to try the properties against
strictly_more_balance(balance, amount) == balance > amount

any_balance_sufficient(balance, amount) == TRUE

stored_balance_credited(stored, balance, amount) == stored + amount

object_balance_debited(stored, balance, amount) == balance - amount

stored_balance_debited(stored, balance, amount) == stored - amount

\* has_sufficient_balance, lines 36-38
has_sufficient_balance(balance, amount) == balance >= amount

\* deduct, line 49: balance = F('balance') - amount, on the stored balance,
\* not on the balance the object holds
DebitedBalance(stored, balance, amount) == stored - amount

\* credit, line 69: balance = F('balance') + amount
CreditedBalance(stored, balance, amount) == stored + amount

\* ---- serial reference (ghost) ----------------------------------------
\* the balance a debit / credit call leaves when it runs alone on balance b
SerialDebit(b, active, amount) ==
    IF active /\ b >= amount THEN b - amount ELSE b

SerialCredit(b, active, amount) ==
    IF active THEN b + amount ELSE b

\* the parameters of a scenario a specification starts from (never changed)
NoScen == [N |-> 0, A |-> 0, B |-> 0]

\* ---- Bet rows (src/apps/bets/models.py) ---------------------------------
\* ids of the rows of the bets table
BetRows == {1}

NoBet == [exists |-> FALSE, user |-> 0, stake |-> 0, potential_payout |-> 0,
          status |-> "none", actual_payout |-> 0, settled_at |-> 0]

\* the bets table with no row
NoBets == [b \in BetRows |-> NoBet]

\* ---- dice game rows (src/wallet/models.py) --------------------------------
\* a DiceGame object or row (lines 8-34); id, bet_value, dice_result and
\* created_at are left out of the row, owner is the transaction that has
\* not yet committed it
NoGame == [user |-> 0, bet_amount |-> 0, bet_type |-> "none", bet_value |-> 0,
           dice_result |-> 0, payout_amount |-> 0, status |-> "none"]

\* a GameStats object or row (lines 53-63), field defaults 0
NoStats == [exists |-> FALSE, total_games |-> 0, total_wins |-> 0, total_losses |-> 0,
            total_wagered |-> 0, total_won |-> 0, biggest_win |-> 0,
            win_streak |-> 0, current_streak |-> 0]

\* no game has been played
NoDice ==
    /\ games = <<>>
    /\ stats = [u \in Users |-> NoStats]
    /\ game = [p \in Procs |-> NoGame]
    /\ st = [p \in Procs |-> NoStats]

\* ---- initial state ----------------------------------------------------
Init ==
    /\ accounts = {1}
    /\ wallets = [u \in Users |-> NoWalletRow]
    /\ dirty = [u \in Users |-> 0]
    /\ lock = [u \in Users |-> NoProc]
    /\ txns = <<>>
    /\ pc = [p \in Procs |-> "idle"]
    /\ op = [p \in Procs |-> "none"]
    /\ usr = [p \in Procs |-> 1]
    /\ amt = [p \in Procs |-> 0]
    /\ bet_id = [p \in Procs |-> NoBetId]
    /\ w = [p \in Procs |-> NoWallet]
    /\ res = [p \in Procs |-> NoRes]
    /\ ret = NoRet
    /\ nops = 0
    /\ ser = [u \in Users |-> 0]
    /\ scen = NoScen
    /\ bets = NoBets
    /\ NoDice

\* ---- call / return bookkeeping ---------------------------------------
\* a request is served by the first free process; requests are counted (all
\* but the one that creates a user's wallet, which happens once), so that
\* the log stays bounded
\* no call is in progress
Quiet == \A p \in Procs : pc[p] = "idle"

Free(p) == pc[p] = "idle" /\ \A q \in Procs : q < p => pc[q] # "idle"

Call(p) ==
    /\ Free(p)
    /\ nops < MaxOps
    /\ nops' = nops + 1
    /\ UNCHANGED <<accounts, scen, bets, games, stats, game, st>>

\* the call of process p returns r: the process is free for its next request
Return(p, o, u, a, r) ==
    /\ pc' = [pc EXCEPT ![p] = "idle"]
    /\ op' = [op EXCEPT ![p] = "none"]
    /\ usr' = [usr EXCEPT ![p] = 1]
    /\ amt' = [amt EXCEPT ![p] = 0]
    /\ bet_id' = [bet_id EXCEPT ![p] = NoBetId]
    /\ w' = [w EXCEPT ![p] = NoWallet]
    /\ res' = [res EXCEPT ![p] = NoRes]
    /\ ret' = [proc |-> p, op |-> o, usr |-> u, amt |-> a, res |-> r]

\* the call o(u, a, bet_id = b) of process p goes on at label with the Wallet
\* object wobj
GotoWith(p, o, u, a, b, label, wobj, r) ==
    /\ pc' = [pc EXCEPT ![p] = label]
    /\ op' = [op EXCEPT ![p] = o]
    /\ usr' = [usr EXCEPT ![p] = u]
    /\ amt' = [amt EXCEPT ![p] = a]
    /\ bet_id' = [bet_id EXCEPT ![p] = b]
    /\ w' = [w EXCEPT ![p] = wobj]
    /\ res' = [res EXCEPT ![p] = r]
    /\ ret' = NoRet

Goto(p, o, u, a, label, wobj, r) == GotoWith(p, o, u, a, bet_id[p], label, wobj, r)

\* a later step of the call of process p
Step(p, label, wobj, r) == Goto(p, op[p], usr[p], amt[p], label, wobj, r)

Done(p, r) == Return(p, op[p], usr[p], amt[p], r)

\* ---- Wallet.deduct / Wallet.credit (src/apps/wallet/models.py) ---------
\* the Wallet object after refresh_from_db in the transaction of process p
Refreshed(u, stored) ==
    [balance |-> stored, is_active |-> wallets[u].is_active, isfloat |-> FALSE]

\* deduct, lines 45-51: the check on the object's balance, then the UPDATE
\* balance = balance - amount and refresh_from_db.  The UPDATE waits for the
\* row lock; inside an open transaction it keeps the lock until the commit.
Deduct(p) ==
    /\ pc[p] = "deduct"
    /\ LET u == usr[p] IN
       IF ~has_sufficient_balance(w[p].balance, amt[p])
       THEN \* ValueError("Insufficient balance...")
            /\ IF op[p] = "pbp"
               THEN Step(p, "commit", w[p],
                         Failure(op[p], "ValueError", "Insufficient balance"))
               ELSE Done(p, Failure(op[p], "ValueError", "Insufficient balance"))
            /\ UNCHANGED <<wallets, dirty, lock, txns, ser>>
       ELSE /\ lock[u] \in {NoProc, p}
            /\ dirty' = [dirty EXCEPT ![u] = DebitedBalance(dirty[u], w[p].balance, amt[p])]
            /\ lock' = [lock EXCEPT ![u] = p]
            /\ ser' = IF lock[u] = p THEN ser
                      ELSE [ser EXCEPT ![u] = SerialDebit(ser[u], TRUE, amt[p])]
            /\ Step(p, "insert", Refreshed(u, dirty'[u]), res[p])
            /\ UNCHANGED <<wallets, txns>>
    /\ UNCHANGED <<nops, accounts, scen, bets, games, stats, game, st>>

\* credit, lines 69-71: the UPDATE balance = balance + amount and refresh_from_db.
Credit(p) ==
    /\ pc[p] = "credit"
    /\ LET u == usr[p] IN
       /\ lock[u] \in {NoProc, p}
       /\ dirty' = [dirty EXCEPT ![u] = CreditedBalance(dirty[u], w[p].balance, amt[p])]
       /\ lock' = [lock EXCEPT ![u] = p]
       /\ ser' = IF lock[u] = p THEN ser
                 ELSE [ser EXCEPT ![u] = SerialCredit(ser[u], TRUE, amt[p])]
       /\ Step(p, "insert", Refreshed(u, dirty'[u]), res[p])
    /\ UNCHANGED <<wallets, txns, nops, accounts, scen, bets, games, stats, game, st>>

overwrite_last_row(T, row) == IF T = <<>> THEN <<row>> ELSE [T EXCEPT ![Len(T)] = row]

\* Transaction.objects.create (lines 54, 74, 163): an INSERT, the new row comes
\* after every row the table holds
objects_create(T, row) == Append(T, row)

every_row_a_credit(o) == CREDIT

TypeOf(o) == IF o \in {"pbp", "withdraw", "deduct"} THEN DEBIT ELSE CREDIT

DescriptionOf(o) ==
    CASE o = "pbp" -> "Bet placed"
      [] o = "pbw" -> "Bet winning"
      [] o = "add" -> "Deposit"
      [] o = "withdraw" -> "Withdrawal"
      [] o = "deduct" -> "Test deduction"
      [] OTHER -> "Test credit"

SuccessOf(o) ==
    CASE o = "pbp" -> "Bet placed successfully"
      [] o = "pbw" -> "Winnings credited successfully"
      [] o = "add" -> "Successfully added"
      [] o = "withdraw" -> "Successfully withdrew"
      [] OTHER -> "returned"

\* process_bet_winning, lines 207-209: "Bet winning - ..." and, under
\* `if bet_id:`, " (Bet #{bet_id})"; None and 0 are both false there
BetTag(b) == IF b = 0 THEN "Bet winning (Bet #0)" ELSE "Bet winning (Bet #1)"

BetWinningDescription(b) == IF b # NoBetId /\ b # 0 THEN BetTag(b) ELSE "Bet winning"

Description(p) ==
    IF op[p] = "pbw" THEN BetWinningDescription(bet_id[p]) ELSE DescriptionOf(op[p])

\* the row Transaction.objects.create builds in deduct (54-60) and credit (74-80)
NewTxn(p) == Txn(usr[p], TypeOf(op[p]), amt[p], w[p].balance, Description(p), p)

\* deduct 54-61 / credit 74-81: insert the Transaction row and return it
Insert(p) ==
    /\ pc[p] = "insert"
    /\ txns' = objects_create(txns, NewTxn(p))
    /\ Step(p, "commit", w[p], Result(TRUE, SuccessOf(op[p]), Committed(NewTxn(p))))
    /\ UNCHANGED <<wallets, dirty, lock, nops, ser, accounts, scen, bets, games, stats, game, st>>

\* a commit by process p: its writes to the row of user u become the stored
\* ones and the row lock is released
Committing(p) ==
    /\ pc[p] = "commit"
    /\ LET u == usr[p] IN
       /\ wallets' = [wallets EXCEPT ![u].balance = dirty[u]]
       /\ txns' = [i \in 1..Len(txns) |->
                     IF txns[i].owner = p THEN Committed(txns[i]) ELSE txns[i]]
       /\ lock' = [lock EXCEPT ![u] = NoProc]
    /\ Done(p, res[p])
    /\ UNCHANGED <<dirty, nops, ser, accounts, scen, bets, games, stats, game, st>>

\* views.py 120-121 / 169-170: the with transaction.atomic() block is left
Commit(p) == op[p] \in {"add", "withdraw"} /\ Committing(p)

\* the end of the atomic unit process_bet_placement / process_bet_winning run
\* in: select_for_update holds the row until the unit commits
EndUnit(p) == op[p] \in {"pbp", "pbw"} /\ Committing(p)

\* ---- WalletManager (src/apps/wallet/models.py) --------------------------
select_without_lock(u) == TRUE

select_with_table_lock(u) == \A v \in Users : lock[v] = NoProc

\* select_for_update() returns the row once no other transaction holds it
select_for_update(u) == lock[u] = NoProc

\* Wallet.objects.select_for_update().get(user=user), lines 179 and 202
Select(p) ==
    /\ pc[p] = "select"
    /\ LET u == usr[p] IN
       IF ~wallets[u].exists
       THEN \* Wallet.DoesNotExist, lines 190-191 / 214-215
            /\ Done(p, Failure(op[p], "DoesNotExist", "Wallet not found"))
            /\ UNCHANGED <<lock, ser>>
       ELSE /\ select_for_update(u)
            /\ lock' = [lock EXCEPT ![u] = p]
            /\ ser' = [ser EXCEPT ![u] =
                         IF op[p] = "pbp"
                         THEN SerialDebit(ser[u], wallets[u].is_active, amt[p])
                         ELSE SerialCredit(ser[u], wallets[u].is_active, amt[p])]
            /\ Step(p, IF op[p] = "pbp" THEN "pbp_check" ELSE "pbw_check",
                    Loaded(u), NoRes)
    /\ UNCHANGED <<wallets, dirty, txns, nops, accounts, scen, bets, games, stats, game, st>>

every_wallet_active(wobj) == TRUE

\* wallet.is_active, lines 181 and 204
is_active(wobj) == wobj.is_active

\* process_bet_placement(user, bet_amount) is called
BetPlacement(p, amounts) ==
    /\ Call(p)
    /\ \E u \in accounts, a \in amounts : Goto(p, "pbp", u, a, "select", NoWallet, NoRes)
    /\ UNCHANGED <<wallets, dirty, lock, txns, ser>>

process_bet_placement(p) == BetPlacement(p, PositiveAmounts)

\* process_bet_placement, lines 181-185
PBPCheck(p) ==
    /\ pc[p] = "pbp_check"
    /\ IF ~is_active(w[p])
       THEN Step(p, "commit", w[p], Result(FALSE, "Wallet is not active", NoTxn))
       ELSE IF ~has_sufficient_balance(w[p].balance, amt[p])
            THEN Step(p, "commit", w[p], Result(FALSE, "Insufficient balance", NoTxn))
            ELSE Step(p, "deduct", w[p], res[p])
    /\ UNCHANGED <<wallets, dirty, lock, txns, nops, ser, accounts, scen, bets, games, stats, game, st>>

\* process_bet_winning(user, winning_amount, bet_id) is called
BetWinningWith(p, amounts, ids) ==
    /\ Call(p)
    /\ \E u \in accounts, a \in amounts, b \in ids :
         GotoWith(p, "pbw", u, a, b, "select", NoWallet, NoRes)
    /\ UNCHANGED <<wallets, dirty, lock, txns, ser>>

BetWinning(p, amounts) == BetWinningWith(p, amounts, {NoBetId} \cup BetIds)

process_bet_winning(p) == BetWinning(p, PositiveAmounts)

\* process_bet_winning, lines 204-211
PBWCheck(p) ==
    /\ pc[p] = "pbw_check"
    /\ IF ~is_active(w[p])
       THEN Step(p, "commit", w[p], Result(FALSE, "Wallet is not active", NoTxn))
       ELSE Step(p, "credit", w[p], res[p])
    /\ UNCHANGED <<wallets, dirty, lock, txns, nops, ser, accounts, scen, bets, games, stats, game, st>>

always_created(u) == TRUE

\* the created flag of Wallet.objects.get_or_create(user=u, ...), line 158
created(u) == ~wallets[u].exists

\* create_wallet_for_user with initial_balance drawn from balances; lines
\* 158-161: get_or_create, committed at once
CreateWallet(p, balances) ==
    /\ Free(p)
    /\ \E u \in accounts, initial_balance \in balances :
         IF ~created(u)
         THEN /\ nops < MaxOps
              /\ nops' = nops + 1
              /\ Return(p, "create", u, initial_balance, Result(FALSE, "existed", NoTxn))
              /\ UNCHANGED <<wallets, dirty, ser>>
         ELSE /\ wallets' = [wallets EXCEPT ![u] =
                   [exists |-> TRUE, balance |-> initial_balance, is_active |-> TRUE]]
              /\ dirty' = [dirty EXCEPT ![u] = initial_balance]
              /\ ser' = [ser EXCEPT ![u] = initial_balance]
              /\ Goto(p, "create", u, initial_balance, "cw_txn",
                      [balance |-> initial_balance, is_active |-> TRUE,
                       isfloat |-> FALSE], NoRes)
              /\ UNCHANGED nops
    /\ UNCHANGED <<lock, txns, accounts, scen, bets, games, stats, game, st>>

create_wallet_for_user(p) == CreateWallet(p, InitialBalances)

\* create_wallet_for_user, lines 162-170: the opening-deposit row
CreateOpening(p) ==
    /\ pc[p] = "cw_txn"
    /\ txns' = objects_create(txns, Txn(usr[p], CREDIT, amt[p], w[p].balance,
                                        "Initial deposit", NoProc))
    /\ Done(p, Result(TRUE, "created", NoTxn))
    /\ UNCHANGED <<wallets, dirty, lock, nops, ser, accounts, scen, bets, games, stats, game, st>>

\* ---- deposit / withdrawal endpoints (src/apps/wallet/views.py) ---------
\* add_funds, lines 101-117; the credit runs in transaction.atomic(), 120-121
no_maximum_deposit(a) == FALSE

\* line 110: if amount > 10000
over_maximum_deposit(a) == a > MaxDeposit

AddFunds(p, amounts) ==
    /\ Call(p)
    /\ \E u \in accounts, a \in amounts :
         IF a <= 0
         THEN Return(p, "add", u, a, Result(FALSE, "Amount must be greater than zero", NoTxn))
         ELSE IF over_maximum_deposit(a)
         THEN Return(p, "add", u, a, Result(FALSE, "Maximum deposit amount", NoTxn))
         ELSE IF ~wallets[u].exists
         THEN Return(p, "add", u, a, Result(FALSE, "No Wallet matches the given query", NoTxn))
         ELSE Goto(p, "add", u, a, "credit", Loaded(u), NoRes)
    /\ UNCHANGED <<wallets, dirty, lock, txns, ser>>

add_funds(p) == AddFunds(p, AmountInputs)

\* withdraw_funds, lines 150-166; the deduct runs in transaction.atomic(), 169-170
WithdrawFunds(p, amounts) ==
    /\ Call(p)
    /\ \E u \in accounts, a \in amounts :
         IF ~wallets[u].exists
         THEN Return(p, "withdraw", u, a,
                     Result(FALSE, "No Wallet matches the given query", NoTxn))
         ELSE IF a <= 0
         THEN Return(p, "withdraw", u, a,
                     Result(FALSE, "Amount must be greater than zero", NoTxn))
         ELSE IF ~has_sufficient_balance(Loaded(u).balance, a)
         THEN Return(p, "withdraw", u, a, Result(FALSE, "Insufficient balance", NoTxn))
         ELSE Goto(p, "withdraw", u, a, "deduct", Loaded(u), NoRes)
    /\ UNCHANGED <<wallets, dirty, lock, txns, ser>>

withdraw_funds(p) == WithdrawFunds(p, AmountInputs)

\* ---- direct callers of the Wallet methods (src/apps/wallet/tests.py) ----
\* wallet.deduct(amount) on a freshly loaded Wallet, with no other call in
\* progress, as the tests run it: lines 45-61 in one step
WalletDeduct(p, amounts) ==
    /\ Call(p)
    /\ Quiet
    /\ \E u \in accounts, a \in amounts :
         /\ wallets[u].exists
         /\ lock[u] = NoProc
         /\ IF ~has_sufficient_balance(Loaded(u).balance, a)
            THEN /\ Return(p, "deduct", u, a,
                        Failure("deduct", "ValueError", "Insufficient balance"))
                 /\ UNCHANGED <<wallets, dirty, txns, ser>>
            ELSE LET b == DebitedBalance(dirty[u], Loaded(u).balance, a)
                     t == Txn(u, TypeOf("deduct"), a, b, DescriptionOf("deduct"), NoProc)
                 IN /\ dirty' = [dirty EXCEPT ![u] = b]
                    /\ wallets' = [wallets EXCEPT ![u].balance = b]
                    /\ txns' = objects_create(txns, t)
                    /\ ser' = [ser EXCEPT ![u] = SerialDebit(ser[u], TRUE, a)]
                    /\ Return(p, "deduct", u, a, Result(TRUE, SuccessOf("deduct"), t))
    /\ UNCHANGED lock

wallet_deduct(p) == WalletDeduct(p, PositiveAmounts)

\* wallet.credit(amount) on a freshly loaded Wallet: lines 69-81 in one step
WalletCredit(p, amounts) ==
    /\ Call(p)
    /\ Quiet
    /\ \E u \in accounts, a \in amounts :
         /\ wallets[u].exists
         /\ lock[u] = NoProc
         /\ LET b == CreditedBalance(dirty[u], Loaded(u).balance, a)
                t == Txn(u, TypeOf("credit"), a, b, DescriptionOf("credit"), NoProc)
            IN /\ dirty' = [dirty EXCEPT ![u] = b]
               /\ wallets' = [wallets EXCEPT ![u].balance = b]
               /\ txns' = objects_create(txns, t)
               /\ ser' = [ser EXCEPT ![u] = SerialCredit(ser[u], TRUE, a)]
               /\ Return(p, "credit", u, a, Result(TRUE, SuccessOf("credit"), t))
    /\ UNCHANGED lock

wallet_credit(p) == WalletCredit(p, PositiveAmounts)

\* ---- coin-flip home view (src/apps/accounts/views.py) -------------------
\* line 9: get_or_create; a wallet created here keeps the float default in
\* the object (isfloat), a wallet loaded from the store holds a Decimal
home_view(p) ==
    /\ Call(p)
    /\ \E u \in accounts, a \in AmountInputs, post \in BOOLEAN :
         /\ IF wallets[u].exists
            THEN /\ UNCHANGED <<wallets, dirty, ser>>
                 /\ IF post THEN Goto(p, "home", u, a, "hv_post", Loaded(u), NoRes)
                            ELSE Return(p, "home", u, a, Result(TRUE, "none", NoTxn))
            ELSE /\ wallets' = [wallets EXCEPT ![u] =
                      [exists |-> TRUE, balance |-> DefaultBalance, is_active |-> TRUE]]
                 /\ dirty' = [dirty EXCEPT ![u] = DefaultBalance]
                 /\ ser' = [ser EXCEPT ![u] = DefaultBalance]
                 /\ IF post
                    THEN Goto(p, "home", u, a, "hv_post",
                              [balance |-> DefaultBalance, is_active |-> TRUE,
                               isfloat |-> TRUE], NoRes)
                    ELSE Return(p, "home", u, a, Result(TRUE, "none", NoTxn))
    /\ UNCHANGED <<lock, txns>>

\* lines 13-29: the flip; Decimal += float raises TypeError, float += float
\* does not, and save() then writes every column of the object
HomePost(p) ==
    /\ pc[p] = "hv_post"
    /\ LET u == usr[p] IN
       IF 0 < amt[p] /\ amt[p] <= w[p].balance
       THEN IF w[p].isfloat
            THEN \E win \in BOOLEAN :
                   LET b == IF win THEN w[p].balance + amt[p]
                                   ELSE w[p].balance - amt[p] IN
                   /\ lock[u] = NoProc
                   /\ wallets' = [wallets EXCEPT ![u].balance = b,
                                                 ![u].is_active = w[p].is_active]
                   /\ dirty' = [dirty EXCEPT ![u] = b]
                   /\ ser' = [ser EXCEPT ![u] = b]
                   /\ Done(p, Result(TRUE, IF win THEN "WIN" ELSE "LOSS", NoTxn))
            ELSE /\ Done(p, Result(FALSE, "Please enter a valid number", NoTxn))
                 /\ UNCHANGED <<wallets, dirty, ser>>
       ELSE /\ Done(p, Result(FALSE, "Invalid amount or insufficient funds", NoTxn))
            /\ UNCHANGED <<wallets, dirty, ser>>
    /\ UNCHANGED <<lock, txns, nops, accounts, scen, bets, games, stats, game, st>>

\* ---- deactivation ------------------------------------------------------
\* is_active of an existing wallet is set or cleared
SetActive(u) ==
    /\ nops < MaxOps
    /\ nops' = nops + 1
    /\ UNCHANGED <<scen, bets, games, stats, game, st>>
    /\ wallets[u].exists
    /\ lock[u] = NoProc
    /\ wallets' = [wallets EXCEPT ![u].is_active = ~wallets[u].is_active]
    /\ ret' = NoRet
    /\ UNCHANGED <<accounts, dirty, lock, txns, pc, op, usr, amt, bet_id, w, res, ser>>

\* ---- specification ----------------------------------------------------
Next ==
    \/ \E p \in Procs :
         \/ create_wallet_for_user(p)
         \/ CreateOpening(p)
         \/ process_bet_placement(p)
         \/ Select(p)
         \/ PBPCheck(p)
         \/ process_bet_winning(p)
         \/ PBWCheck(p)
         \/ add_funds(p)
         \/ withdraw_funds(p)
         \/ wallet_deduct(p)
         \/ wallet_credit(p)
         \/ Deduct(p)
         \/ Credit(p)
         \/ Insert(p)
         \/ Commit(p)
         \/ EndUnit(p)
         \/ home_view(p)
         \/ HomePost(p)
    \/ \E u \in accounts : SetActive(u)

Spec == Init /\ [][Next]_vars

\* ---- a store failure between the UPDATE and the INSERT -----------------
\* Transaction.objects.create raises.  process_bet_placement / _winning catch
\* it (lines 192-193, 216-217) and return normally, so the unit they run in
\* goes on to its commit: the UPDATE is kept, unless the store has aborted the
\* unit on the failed statement (which of the two depends on the store).
\* add_funds / withdraw_funds leave transaction.atomic() by the exception,
\* which rolls the UPDATE back.  (ser is the fault-free reference and is
\* left alone.)
FailInsert(p) ==
    /\ pc[p] = "insert"
    /\ LET u == usr[p] IN
       IF op[p] \in {"pbp", "pbw"}
       THEN /\ \E aborted \in BOOLEAN :
                 dirty' = [dirty EXCEPT ![u] = IF aborted THEN wallets[u].balance
                                                          ELSE dirty[u]]
            /\ Step(p, "commit", w[p], Failure(op[p], "DatabaseError", "store failure"))
            /\ UNCHANGED lock
       ELSE /\ dirty' = [dirty EXCEPT ![u] = wallets[u].balance]
            /\ lock' = [lock EXCEPT ![u] = NoProc]
            /\ Done(p, Failure(op[p], "DatabaseError", "store failure"))
    /\ UNCHANGED <<wallets, txns, nops, ser, accounts, scen, bets, games, stats, game, st>>

NextFault == Next \/ \E p \in Procs : FailInsert(p)

SpecFault == Init /\ [][NextFault]_vars

\* ---- account creation (src/wallet/signals.py) ---------------------------
\* post_save of a new User, create_user_wallet, lines 5-9.  The module never
\* imports Wallet: the handler fails on the name, or, where the name is bound,
\* inserts a wallet with the default balance.  It writes no Transaction row.
create_user_wallet(u) ==
    /\ u \notin accounts
    /\ accounts' = accounts \cup {u}
    /\ \E bound \in BOOLEAN :
         IF bound /\ ~wallets[u].exists
         THEN /\ wallets' = [wallets EXCEPT ![u] =
                   [exists |-> TRUE, balance |-> DefaultBalance, is_active |-> TRUE]]
              /\ dirty' = [dirty EXCEPT ![u] = DefaultBalance]
              /\ ser' = [ser EXCEPT ![u] = DefaultBalance]
         ELSE UNCHANGED <<wallets, dirty, ser>>
    /\ ret' = NoRet
    /\ UNCHANGED <<lock, txns, pc, op, usr, amt, bet_id, w, res, nops, scen, bets, games, stats, game, st>>

\* the ways a wallet comes to exist, from no account at all
InitSignup ==
    /\ accounts = {}
    /\ wallets = [u \in Users |-> NoWalletRow]
    /\ dirty = [u \in Users |-> 0]
    /\ lock = [u \in Users |-> NoProc]
    /\ txns = <<>>
    /\ pc = [p \in Procs |-> "idle"]
    /\ op = [p \in Procs |-> "none"]
    /\ usr = [p \in Procs |-> 1]
    /\ amt = [p \in Procs |-> 0]
    /\ bet_id = [p \in Procs |-> NoBetId]
    /\ w = [p \in Procs |-> NoWallet]
    /\ res = [p \in Procs |-> NoRes]
    /\ ret = NoRet
    /\ nops = 0
    /\ ser = [u \in Users |-> 0]
    /\ scen = NoScen
    /\ bets = NoBets
    /\ NoDice

NextSignup ==
    \/ \E u \in Users : create_user_wallet(u)
    \/ \E p \in Procs :
         \/ create_wallet_for_user(p)
         \/ CreateOpening(p)
         \/ home_view(p)
         \/ HomePost(p)

SpecSignup == InitSignup /\ [][NextSignup]_vars

\* ---- amounts and opening balances of either sign -------------------------
\* the callers pass the amount on as they get it (bets/views.py 6-11,
\* wallet/views.py 343-366): a zero or negative amount reaches the service
AnyAmounts == {-1, 0, 1}

AnyBalances == 0..DefaultBalance

NextAmounts ==
    \E p \in Procs :
        \/ CreateWallet(p, AnyBalances)
        \/ CreateOpening(p)
        \/ BetPlacement(p, AnyAmounts)
        \/ BetWinning(p, AnyAmounts)
        \/ WalletDeduct(p, AnyAmounts)
        \/ WalletCredit(p, AnyAmounts)
        \/ Select(p)
        \/ PBPCheck(p)
        \/ PBWCheck(p)
        \/ Deduct(p)
        \/ Credit(p)
        \/ Insert(p)
        \/ EndUnit(p)

SpecAmounts == Init /\ [][NextAmounts]_vars

\* ---- N debit calls of amount A against one wallet of balance B ----------
OpeningTxn(u, initial_balance) ==
    Txn(u, CREDIT, initial_balance, initial_balance, "Initial deposit", NoProc)

InitDebits ==
    /\ accounts = {1}
    /\ \E B \in 0..MaxB, A \in 1..(MaxB + 1), N \in 1..(NProcs + 1) :
         /\ N * A > B
         /\ scen = [N |-> N, A |-> A, B |-> B]
         /\ wallets = [u \in Users |->
                         IF u = 1 THEN [exists |-> TRUE, balance |-> B, is_active |-> TRUE]
                                  ELSE NoWalletRow]
         /\ dirty = [u \in Users |-> IF u = 1 THEN B ELSE 0]
         /\ ser = [u \in Users |-> IF u = 1 THEN B ELSE 0]
         /\ txns = <<OpeningTxn(1, B)>>
    /\ lock = [u \in Users |-> NoProc]
    /\ pc = [p \in Procs |-> "idle"]
    /\ op = [p \in Procs |-> "none"]
    /\ usr = [p \in Procs |-> 1]
    /\ amt = [p \in Procs |-> 0]
    /\ bet_id = [p \in Procs |-> NoBetId]
    /\ w = [p \in Procs |-> NoWallet]
    /\ res = [p \in Procs |-> NoRes]
    /\ ret = NoRet
    /\ nops = 0
    /\ bets = NoBets
    /\ NoDice

DebitCall(p) ==
    /\ Free(p)
    /\ nops < scen.N
    /\ nops' = nops + 1
    /\ Goto(p, "pbp", 1, scen.A, "select", NoWallet, NoRes)
    /\ UNCHANGED <<accounts, wallets, dirty, lock, txns, ser, scen, bets, games, stats, game, st>>

NextDebits ==
    \E p \in Procs :
        \/ DebitCall(p)
        \/ Select(p)
        \/ PBPCheck(p)
        \/ Deduct(p)
        \/ Insert(p)
        \/ EndUnit(p)

SpecDebits == InitDebits /\ [][NextDebits]_vars

\* ---- debit / credit calls on the wallets of two users -------------------
\* both users have a wallet made by create_wallet_for_user with the default
\* opening balance
InitPair ==
    /\ accounts = Users
    /\ wallets = [u \in Users |->
                    [exists |-> TRUE, balance |-> DefaultBalance, is_active |-> TRUE]]
    /\ dirty = [u \in Users |-> DefaultBalance]
    /\ ser = [u \in Users |-> DefaultBalance]
    /\ txns = <<OpeningTxn(1, DefaultBalance), OpeningTxn(2, DefaultBalance)>>
    /\ lock = [u \in Users |-> NoProc]
    /\ pc = [p \in Procs |-> "idle"]
    /\ op = [p \in Procs |-> "none"]
    /\ usr = [p \in Procs |-> 1]
    /\ amt = [p \in Procs |-> 0]
    /\ bet_id = [p \in Procs |-> NoBetId]
    /\ w = [p \in Procs |-> NoWallet]
    /\ res = [p \in Procs |-> NoRes]
    /\ ret = NoRet
    /\ nops = 0
    /\ scen = NoScen
    /\ bets = NoBets
    /\ NoDice

NextPair ==
    \E p \in Procs :
        \/ process_bet_placement(p)
        \/ process_bet_winning(p)
        \/ add_funds(p)
        \/ withdraw_funds(p)
        \/ Select(p)
        \/ PBPCheck(p)
        \/ PBWCheck(p)
        \/ Deduct(p)
        \/ Credit(p)
        \/ Insert(p)
        \/ Commit(p)
        \/ EndUnit(p)

SpecPair == InitPair /\ [][NextPair]_vars

\* ---- dice game (src/wallet/services.py) -----------------------------------
\* DiceGameService.place_bet runs under @transaction.atomic (line 46): the
\* row lock of select_for_update (line 64) is held until the function
\* returns (commit) or raises (rollback).  The debit and the credit of the
\* winnings are done by WalletService (not in the repository): they are taken
\* to change the balance by the amount and to write one row each.
lock_kept(L, p) == L

\* leaving the atomic block, by return or by exception, ends the transaction
\* of process p: every row lock it holds is released
transaction_atomic_exit(L, p) == [u \in Users |-> IF L[u] = p THEN NoProc ELSE L[u]]

\* BET_TYPES (models.py 10-16)
BetTypes == {"SINGLE", "EVEN", "ODD", "HIGH", "LOW"}

\* PAYOUTS, lines 17-23: 6x on a single number, 2x on the other bet types
PAYOUTS(bet_type) == IF bet_type = "SINGLE" THEN 6 ELSE 2

Payouts == {PAYOUTS(t) : t \in BetTypes}

\* bet_value = None
NoValue == 0

\* roll_dice, lines 25-28
Faces == 1..6

\* check_win, lines 30-43
check_win(bet_type, bet_value, dice_result) ==
    CASE bet_type = "SINGLE" -> dice_result = bet_value
      [] bet_type = "EVEN" -> dice_result % 2 = 0
      [] bet_type = "ODD" -> dice_result % 2 # 0
      [] bet_type = "HIGH" -> dice_result >= 4
      [] bet_type = "LOW" -> dice_result <= 3
      [] OTHER -> FALSE

\* the row of the games table that holds the object g, written by the
\* transaction of process owner and not yet committed
GameRow(g, owner) ==
    [user |-> g.user, bet_amount |-> g.bet_amount, bet_type |-> g.bet_type,
     payout_amount |-> g.payout_amount, status |-> g.status, owner |-> owner]

\* the game records other transactions can see
CommittedGames(G) == SelectSeq(G, LAMBDA r : r.owner = NoProc)

\* the rows that are left when the transaction of process p is rolled back
rows_kept(T, p) == T

rolled_back(T, p) == SelectSeq(T, LAMBDA r : r.owner # p)

\* the rows once the transaction of process p has committed
committed_by(T, p) ==
    [i \in 1..Len(T) |-> IF T[i].owner = p THEN Committed(T[i]) ELSE T[i]]

\* update_stats, lines 117-135, on the GameStats object s for the game g
UpdatedStats(s, g) ==
    LET profit == g.payout_amount - g.bet_amount
        streak == s.current_streak + 1
    IN IF g.status = "WON"
       THEN [exists |-> TRUE,
             total_games |-> s.total_games + 1,
             total_wins |-> s.total_wins + 1,
             total_losses |-> s.total_losses,
             total_wagered |-> s.total_wagered + g.bet_amount,
             total_won |-> s.total_won + g.payout_amount,
             biggest_win |-> IF profit > s.biggest_win THEN profit ELSE s.biggest_win,
             win_streak |-> IF streak > s.win_streak THEN streak ELSE s.win_streak,
             current_streak |-> streak]
       ELSE [exists |-> TRUE,
             total_games |-> s.total_games + 1,
             total_wins |-> s.total_wins,
             total_losses |-> s.total_losses + 1,
             total_wagered |-> s.total_wagered + g.bet_amount,
             total_won |-> s.total_won,
             biggest_win |-> s.biggest_win,
             win_streak |-> s.win_streak,
             current_streak |-> 0]

\* a dice call: the request is kept in the game object of the process
DiceCall(p) ==
    /\ Free(p)
    /\ nops < MaxOps
    /\ nops' = nops + 1
    /\ UNCHANGED <<accounts, scen, bets, games, stats, st>>

\* the call of process p ends: its objects are dropped
DiceDone(p, r) ==
    /\ Done(p, r)
    /\ game' = [game EXCEPT ![p] = NoGame]
    /\ st' = [st EXCEPT ![p] = NoStats]

\* place_bet, lines 47-61: the validation of the request <<bet_type, bet_value>>
DiceBet(p, amounts, requests) ==
    /\ DiceCall(p)
    /\ \E u \in accounts, a \in amounts, rq \in requests :
         LET bet_type == rq[1]
             bet_value == rq[2]
         IN IF a <= 0
            THEN /\ Return(p, "dice", u, a,
                           Failure("dice", "ValueError", "Bet amount must be positive"))
                 /\ UNCHANGED game
            ELSE IF bet_type \notin BetTypes
            THEN /\ Return(p, "dice", u, a,
                           Failure("dice", "ValueError", "Invalid bet type"))
                 /\ UNCHANGED game
            ELSE IF bet_type = "SINGLE"
                    /\ (bet_value = NoValue \/ bet_value < 1 \/ bet_value > 6)
            THEN /\ Return(p, "dice", u, a,
                           Failure("dice", "ValueError", "choose a number between 1 and 6"))
                 /\ UNCHANGED game
            ELSE /\ Goto(p, "dice", u, a, "dice_select", NoWallet, NoRes)
                 /\ game' = [game EXCEPT ![p] =
                               [NoGame EXCEPT !.user = u, !.bet_amount = a,
                                              !.bet_type = bet_type,
                                              !.bet_value = bet_value]]
    /\ UNCHANGED <<wallets, dirty, lock, txns, ser>>

\* the requests of a player: a bet type that does not exist, a single number
\* with and without a valid value, and the four other types
DiceRequests ==
    {<<"NONE", NoValue>>, <<"SINGLE", NoValue>>, <<"SINGLE", 7>>, <<"SINGLE", 3>>}
        \cup {<<t, NoValue>> : t \in BetTypes \ {"SINGLE"}}

DicePlaceBet(p) == DiceBet(p, AmountInputs, DiceRequests)

\* line 64: Wallet.objects.select_for_update().get(user=user)
DiceSelect(p) ==
    /\ pc[p] = "dice_select"
    /\ LET u == usr[p] IN
       IF ~wallets[u].exists
       THEN /\ DiceDone(p, Failure("dice", "DoesNotExist", "Wallet not found"))
            /\ UNCHANGED lock
       ELSE /\ select_for_update(u)
            /\ lock' = [lock EXCEPT ![u] = p]
            /\ Step(p, "dice_check", Loaded(u), NoRes)
            /\ UNCHANGED <<game, st>>
    /\ UNCHANGED <<wallets, dirty, txns, nops, ser, accounts, scen, bets, games, stats>>

\* lines 67-68: the balance check; ValueError leaves the atomic block
DiceCheck(p) ==
    /\ pc[p] = "dice_check"
    /\ IF w[p].balance < amt[p]
       THEN /\ lock' = transaction_atomic_exit(lock, p)
            /\ DiceDone(p, Failure("dice", "ValueError", "Insufficient balance"))
       ELSE /\ Step(p, "dice_debit", w[p], res[p])
            /\ UNCHANGED <<lock, game, st>>
    /\ UNCHANGED <<wallets, dirty, txns, nops, ser, accounts, scen, bets, games, stats>>

\* line 71: WalletService.place_bet(wallet, bet_amount, ...)
DiceDebit(p) ==
    /\ pc[p] = "dice_debit"
    /\ LET u == usr[p]
           b == dirty[u] - amt[p]
       IN /\ dirty' = [dirty EXCEPT ![u] = b]
          /\ txns' = objects_create(txns, Txn(u, DEBIT, amt[p], b, "Dice bet", p))
          /\ Step(p, "dice_roll", Refreshed(u, b), res[p])
    /\ UNCHANGED <<wallets, lock, nops, ser, accounts, scen, bets, games, stats, game, st>>

\* lines 74-103: the game record (status ACTIVE), the roll, and on a win the
\* credit of payout = bet_amount * multiplier (line 97); the outcome is in
\* the game object
Roll(p, faces) ==
    /\ pc[p] = "dice_roll"
    /\ LET u == usr[p]
           g == game[p]
       IN \E dice_result \in faces :
            /\ games' = objects_create(games, GameRow([g EXCEPT !.status = "ACTIVE"], p))
            /\ IF check_win(g.bet_type, g.bet_value, dice_result)
               THEN LET payout == amt[p] * PAYOUTS(g.bet_type)
                        b == dirty[u] + payout
                    IN /\ dirty' = [dirty EXCEPT ![u] = b]
                       /\ txns' = objects_create(txns, Txn(u, CREDIT, payout, b, "Dice win", p))
                       /\ game' = [game EXCEPT ![p] =
                                     [g EXCEPT !.dice_result = dice_result,
                                               !.payout_amount = payout,
                                               !.status = "WON"]]
                       /\ Step(p, "dice_stats", Refreshed(u, b), Result(TRUE, "WON", NoTxn))
               ELSE /\ game' = [game EXCEPT ![p] =
                                  [g EXCEPT !.dice_result = dice_result,
                                            !.payout_amount = 0,
                                            !.status = "LOST"]]
                    /\ Step(p, "dice_stats", w[p], Result(TRUE, "LOST", NoTxn))
                    /\ UNCHANGED <<dirty, txns>>
    /\ UNCHANGED <<wallets, lock, nops, ser, accounts, scen, bets, stats, st>>

DiceRoll(p) == Roll(p, Faces)

\* line 105, game.save(): the row of the call gets the outcome; line 115,
\* update_stats: GameStats.objects.get_or_create loads the user's stats (a
\* new row holds the field defaults)
DiceStats(p) ==
    /\ pc[p] = "dice_stats"
    /\ games' = [i \in 1..Len(games) |->
                   IF games[i].owner = p THEN GameRow(game[p], p) ELSE games[i]]
    /\ st' = [st EXCEPT ![p] = [stats[usr[p]] EXCEPT !.exists = TRUE]]
    /\ Step(p, "dice_commit", w[p], res[p])
    /\ UNCHANGED <<wallets, dirty, lock, txns, nops, ser, accounts, scen, bets, stats, game>>

\* lines 117-137 and 110: the stats are updated on the loaded object and
\* saved, place_bet returns and the atomic block commits
DiceCommit(p) ==
    /\ pc[p] = "dice_commit"
    /\ LET u == usr[p] IN
       /\ wallets' = [wallets EXCEPT ![u].balance = dirty[u]]
       /\ ser' = [ser EXCEPT ![u] = dirty[u]]
       /\ txns' = committed_by(txns, p)
       /\ games' = committed_by(games, p)
       /\ stats' = [stats EXCEPT ![u] = UpdatedStats(st[p], game[p])]
       /\ lock' = transaction_atomic_exit(lock, p)
    /\ DiceDone(p, res[p])
    /\ UNCHANGED <<dirty, nops, accounts, scen, bets>>

\* a statement after the debit raises (lines 74-108): the atomic block rolls
\* the writes of the call back
DiceAbort(p) ==
    /\ pc[p] \in {"dice_roll", "dice_stats", "dice_commit"}
    /\ LET u == usr[p] IN
       /\ dirty' = [dirty EXCEPT ![u] = wallets[u].balance]
       /\ txns' = rolled_back(txns, p)
       /\ games' = rolled_back(games, p)
       /\ lock' = transaction_atomic_exit(lock, p)
    /\ DiceDone(p, Failure("dice", "Exception", "An error occurred"))
    /\ UNCHANGED <<wallets, nops, ser, accounts, scen, bets, stats>>

\* concurrent dice bets of one user
NextDice ==
    \E p \in Procs :
        \/ DicePlaceBet(p)
        \/ DiceSelect(p)
        \/ DiceCheck(p)
        \/ DiceDebit(p)
        \/ DiceRoll(p)
        \/ DiceStats(p)
        \/ DiceCommit(p)
        \/ DiceAbort(p)

\* ---- debit / credit calls under fair scheduling ---------------------------
\* one wallet, made by create_wallet_for_user, active or deactivated
InitLive ==
    /\ accounts = {1}
    /\ \E active \in BOOLEAN :
         wallets = [u \in Users |->
                      IF u = 1 THEN [exists |-> TRUE, balance |-> DefaultBalance,
                                     is_active |-> active]
                               ELSE NoWalletRow]
    /\ dirty = [u \in Users |-> IF u = 1 THEN DefaultBalance ELSE 0]
    /\ ser = [u \in Users |-> IF u = 1 THEN DefaultBalance ELSE 0]
    /\ txns = <<OpeningTxn(1, DefaultBalance)>>
    /\ lock = [u \in Users |-> NoProc]
    /\ pc = [p \in Procs |-> "idle"]
    /\ op = [p \in Procs |-> "none"]
    /\ usr = [p \in Procs |-> 1]
    /\ amt = [p \in Procs |-> 0]
    /\ bet_id = [p \in Procs |-> NoBetId]
    /\ w = [p \in Procs |-> NoWallet]
    /\ res = [p \in Procs |-> NoRes]
    /\ ret = NoRet
    /\ nops = 0
    /\ scen = NoScen
    /\ bets = NoBets
    /\ NoDice

SpecDice == InitLive /\ [][NextDice]_vars

\* the dice bets of the scenario are on an even number, the roll is 3 or 4
LiveFaces == {3, 4}

LiveRequests == {<<"EVEN", NoValue>>}

\* the steps of a call that wait for the row lock
LockStep(p) ==
    \/ Select(p)
    \/ Deduct(p)
    \/ Credit(p)
    \/ DiceSelect(p)

\* the steps of a call that wait for nothing
RunStep(p) ==
    \/ PBPCheck(p)
    \/ PBWCheck(p)
    \/ Insert(p)
    \/ Commit(p)
    \/ EndUnit(p)
    \/ DiceCheck(p)
    \/ DiceDebit(p)
    \/ Roll(p, LiveFaces)
    \/ DiceStats(p)
    \/ DiceCommit(p)
    \/ DiceAbort(p)

\* every call stakes or wins the whole opening balance (a dice bet may also
\* carry the amount 0, which the validation refuses)
LiveAmounts == {DefaultBalance}

NextLive ==
    \E p \in Procs :
        \/ BetPlacement(p, LiveAmounts)
        \/ BetWinningWith(p, LiveAmounts, {NoBetId})
        \/ withdraw_funds(p)
        \/ DiceBet(p, {0} \cup LiveAmounts, LiveRequests)
        \/ LockStep(p)
        \/ RunStep(p)

\* every request thread keeps running, and the store grants a row lock that
\* is free again and again to each call that waits for it
FairLive ==
    \A p \in Procs : WF_vars(RunStep(p)) /\ SF_vars(LockStep(p))

SpecLive == InitLive /\ [][NextLive]_vars /\ FairLive

\* ---- read paths (src/apps/wallet/models.py 83-95, 219-246) ---------------
\* largest limit a caller of get_transaction_history passes
MaxLimit == 3

\* the limit is passed on as the caller gives it (views.py:313-314)
Limits == -1..MaxLimit

\* get_wallet_summary returns None
NoSummary == [balance |-> -1, total_deposited |-> -1, total_withdrawn |-> -1,
              is_active |-> FALSE, transaction_count |-> -1]

\* what a read returns
Value(v, msg) == [ok |-> TRUE, msg |-> msg, txn |-> NoTxn, raised |-> FALSE, value |-> v]

always_found(u) == TRUE

\* Wallet.objects.get(user=user) finds a row (lines 226, 243); otherwise it
\* raises Wallet.DoesNotExist
found(u) == wallets[u].exists

\* aggregate(total=Sum('amount'))['total']: the sum of the amounts of the
\* first i rows of T
RECURSIVE SumAmount(_, _)
SumAmount(T, i) == IF i = 0 THEN 0 ELSE SumAmount(T, i - 1) + T[i].amount

\* the rows that filter(transaction_type=type, status=COMPLETED) keeps
Completed(T, type) ==
    SelectSeq(T, LAMBDA r : r.transaction_type = type /\ r.status = COMPLETED)

total_of_every_row(T, u) == SumAmount(RowsOf(T, u), Len(RowsOf(T, u)))

\* get_total_deposited, lines 83-88 (`or Decimal('0.00')` when there is no row)
get_total_deposited(T, u) ==
    LET rows == Completed(RowsOf(T, u), CREDIT) IN
    IF rows = <<>> THEN 0 ELSE SumAmount(rows, Len(rows))

\* get_total_withdrawn, lines 90-95
get_total_withdrawn(T, u) ==
    LET rows == Completed(RowsOf(T, u), DEBIT) IN
    IF rows = <<>> THEN 0 ELSE SumAmount(rows, Len(rows))

\* the amount of the debits and credits that run beside the reads
ReadAmounts == {1}

\* get_wallet_summary, line 226: the wallet is loaded; None when there is none
GetWalletSummary(p) ==
    /\ Call(p)
    /\ \E u \in accounts :
         IF ~found(u)
         THEN Return(p, "summary", u, 0, Value(NoSummary, "None"))
         ELSE Goto(p, "summary", u, 0, "gs_deposited", Loaded(u),
                   Value([NoSummary EXCEPT !.balance = wallets[u].balance,
                                           !.is_active = wallets[u].is_active],
                         "summary"))
    /\ UNCHANGED <<wallets, dirty, lock, txns, ser>>

\* line 230: wallet.get_total_deposited()
SummaryDeposited(p) ==
    /\ pc[p] = "gs_deposited"
    /\ Step(p, "gs_withdrawn", w[p],
            [res[p] EXCEPT !.value.total_deposited = get_total_deposited(txns, usr[p])])
    /\ UNCHANGED <<wallets, dirty, lock, txns, nops, ser, accounts, scen, bets, games, stats, game, st>>

\* line 231: wallet.get_total_withdrawn()
SummaryWithdrawn(p) ==
    /\ pc[p] = "gs_withdrawn"
    /\ Step(p, "gs_count", w[p],
            [res[p] EXCEPT !.value.total_withdrawn = get_total_withdrawn(txns, usr[p])])
    /\ UNCHANGED <<wallets, dirty, lock, txns, nops, ser, accounts, scen, bets, games, stats, game, st>>

\* lines 234-235: wallet.transactions.count(), and the dict is returned
SummaryCount(p) ==
    /\ pc[p] = "gs_count"
    /\ Done(p, [res[p] EXCEPT !.value.transaction_count = Len(Log(usr[p]))])
    /\ UNCHANGED <<wallets, dirty, lock, txns, nops, ser, accounts, scen, bets, games, stats, game, st>>

\* the sequence T from its last element to its first
Reversed(T) == [i \in 1..Len(T) |-> T[Len(T) + 1 - i]]

oldest_first(T) == T

\* Transaction.Meta.ordering = ['-created_at'], lines 129-131: T is in
\* creation order
most_recent_first(T) == Reversed(T)

\* queryset[:limit]
Slice(T, limit) == SubSeq(T, 1, IF limit < Len(T) THEN limit ELSE Len(T))

\* get_transaction_history, lines 243-246: [] when there is no wallet; a
\* negative limit makes the slice raise ("Negative indexing is not supported")
GetTransactionHistory(p) ==
    /\ Call(p)
    /\ \E u \in accounts, limit \in Limits :
         IF ~found(u)
         THEN Return(p, "history", u, limit, Value(<<>>, "[]"))
         ELSE IF limit < 0
         THEN Return(p, "history", u, limit, Raised("Negative indexing is not supported"))
         ELSE Return(p, "history", u, limit,
                     Value(Slice(most_recent_first(Log(u)), limit), "history"))
    /\ UNCHANGED <<wallets, dirty, lock, txns, ser>>


\* reads while a wallet is made, debited and credited
NextRead ==
    \E p \in Procs :
        \/ create_wallet_for_user(p)
        \/ CreateOpening(p)
        \/ BetPlacement(p, ReadAmounts)
        \/ BetWinningWith(p, ReadAmounts, {NoBetId})
        \/ Select(p)
        \/ PBPCheck(p)
        \/ PBWCheck(p)
        \/ Deduct(p)
        \/ Credit(p)
        \/ Insert(p)
        \/ EndUnit(p)
        \/ GetWalletSummary(p)
        \/ SummaryDeposited(p)
        \/ SummaryWithdrawn(p)
        \/ SummaryCount(p)
        \/ GetTransactionHistory(p)

SpecRead == Init /\ [][NextRead]_vars

\* the history of one wallet while both wallets are debited and credited
NextHistory ==
    \E p \in Procs :
        \/ BetPlacement(p, ReadAmounts)
        \/ BetWinningWith(p, ReadAmounts, {NoBetId})
        \/ Select(p)
        \/ PBPCheck(p)
        \/ PBWCheck(p)
        \/ Deduct(p)
        \/ Credit(p)
        \/ Insert(p)
        \/ EndUnit(p)
        \/ GetTransactionHistory(p)

SpecHistory == InitPair /\ [][NextHistory]_vars

\* ---- deposits and withdrawals of any requested amount ---------------------
\* amounts of a request: negative, zero, small, above the opening balance, the
\* largest deposit allowed, and above it
FundAmounts == {-1, 0, 1, DefaultBalance + 1, MaxDeposit, MaxDeposit + 1}

NextFunds ==
    \E p \in Procs :
        \/ AddFunds(p, FundAmounts)
        \/ WithdrawFunds(p, FundAmounts)
        \/ Deduct(p)
        \/ Credit(p)
        \/ Insert(p)
        \/ Commit(p)

SpecFunds == InitLive /\ [][NextFunds]_vars

\* ---- wallet creation, with a store failure at the opening row -------------
\* Transaction.objects.create (models.py:163) raises: create_wallet_for_user
\* has no except clause and no transaction around the two statements, so the
\* call raises and the wallet of get_or_create stays
FailOpening(p) ==
    /\ pc[p] = "cw_txn"
    /\ Done(p, Failure("create", "DatabaseError", "store failure"))
    /\ UNCHANGED <<wallets, dirty, lock, txns, nops, ser, accounts, scen, bets, games, stats, game, st>>

NextCreate ==
    \E p \in Procs :
        \/ create_wallet_for_user(p)
        \/ CreateOpening(p)
        \/ FailOpening(p)
        \/ GetWalletSummary(p)
        \/ SummaryDeposited(p)
        \/ SummaryWithdrawn(p)
        \/ SummaryCount(p)

SpecCreate == Init /\ [][NextCreate]_vars

\* ---- settling a bet (src/apps/bets/views.py, src/apps/bets/models.py) ----
\* process_bet_result, line 33: the winnings are five times the bet's amount
WinMultiplier == 5

\* stakes of the bet the table starts with, and its odds: Bet.save (lines
\* 116-120) sets potential_payout = stake * odds
BetStakes == {1, 2}

BetOdds == 2

\* payout_amount of mark_as_won: None, 0.00 or a positive amount
NoPayout == -1

PayoutInputs == {NoPayout, 0, 3}

\* one pending bet of user 1, whose wallet holds the default balance (the
\* stake was paid from another deposit)
InitBets ==
    /\ accounts = {1}
    /\ \E active \in BOOLEAN :
         wallets = [u \in Users |->
                      IF u = 1 THEN [exists |-> TRUE, balance |-> DefaultBalance,
                                     is_active |-> active]
                               ELSE NoWalletRow]
    /\ dirty = [u \in Users |-> IF u = 1 THEN DefaultBalance ELSE 0]
    /\ ser = [u \in Users |-> IF u = 1 THEN DefaultBalance ELSE 0]
    /\ txns = <<OpeningTxn(1, DefaultBalance)>>
    /\ lock = [u \in Users |-> NoProc]
    /\ pc = [p \in Procs |-> "idle"]
    /\ op = [p \in Procs |-> "none"]
    /\ usr = [p \in Procs |-> 1]
    /\ amt = [p \in Procs |-> 0]
    /\ bet_id = [p \in Procs |-> NoBetId]
    /\ w = [p \in Procs |-> NoWallet]
    /\ res = [p \in Procs |-> NoRes]
    /\ ret = NoRet
    /\ nops = 0
    /\ scen = NoScen
    /\ \E stake \in BetStakes :
         bets = [b \in BetRows |->
                   [exists |-> TRUE, user |-> 1, stake |-> stake,
                    potential_payout |-> stake * BetOdds, status |-> "pending",
                    actual_payout |-> 0, settled_at |-> 0]]
    /\ NoDice

\* a call that may write the bets table
BetCall(p) ==
    /\ Free(p)
    /\ nops < MaxOps
    /\ nops' = nops + 1
    /\ UNCHANGED <<accounts, scen, games, stats, game, st>>

\* Bet.is_pending, lines 123-125
is_pending(bet) == bet.status = "pending"

\* process_bet_result(bet_id, user_won), lines 28-47.  The module never
\* imports Bet (line 29) and Bet has a stake, no amount (line 33): where the
\* names resolve (`bound`) the function runs as written, on the bet's stake;
\* where they do not, line 29 raises NameError before anything is written.
\* process_bet_winning is the whole call: the credit and its row are committed
\* when it returns, and it reports a missing or inactive wallet as a failure.
\* The status of the loaded bet is not looked at before the credit; lines
\* 43-44 write status and leave actual_payout and settled_at alone.
process_bet_result(p) ==
    /\ BetCall(p)
    /\ \E b \in BetRows, user_won \in BOOLEAN, bound \in BOOLEAN :
         LET bet == bets[b]
             u == bet.user
             winning_amount == bet.stake * WinMultiplier
         IN /\ bet.exists
            /\ lock[u] = NoProc
            /\ IF ~bound
               THEN /\ Return(p, "result", u, 0, Raised("NameError"))
                    /\ UNCHANGED <<wallets, dirty, txns, ser, bets>>
               ELSE IF ~user_won \/ ~wallets[u].exists \/ ~wallets[u].is_active
               THEN /\ Return(p, "result", u, 0, Result(FALSE, "False", NoTxn))
                    /\ UNCHANGED <<wallets, dirty, txns, ser, bets>>
               ELSE LET bal == CreditedBalance(dirty[u], Loaded(u).balance, winning_amount)
                        t == Txn(u, CREDIT, winning_amount, bal,
                                 BetWinningDescription(b), NoProc)
                    IN /\ dirty' = [dirty EXCEPT ![u] = bal]
                       /\ wallets' = [wallets EXCEPT ![u].balance = bal]
                       /\ txns' = objects_create(txns, t)
                       /\ ser' = [ser EXCEPT ![u] = SerialCredit(ser[u], TRUE, winning_amount)]
                       /\ bets' = [bets EXCEPT ![b].status = "won"]
                       /\ Return(p, "result", u, winning_amount, Result(TRUE, "True", t))
    /\ UNCHANGED lock

\* Bet.is_settled, lines 127-129
is_settled(bet) == bet.status \in {"won", "lost", "cancelled", "void"}

\* a mark_as_* method of a loaded Bet, called with argument a: ValueError
\* unless allowed, else the row is saved with the new fields and
\* settled_at = now
MarkBet(p, o, b, a, allowed, row) ==
    /\ BetCall(p)
    /\ bets[b].exists
    /\ IF allowed
       THEN /\ bets' = [bets EXCEPT ![b] = [row EXCEPT !.settled_at = nops + 1]]
            /\ Return(p, o, bets[b].user, a, Result(TRUE, "saved", NoTxn))
       ELSE /\ UNCHANGED bets
            /\ Return(p, o, bets[b].user, a, Raised("ValueError"))
    /\ UNCHANGED <<wallets, dirty, lock, txns, ser>>

\* Bet.mark_as_won(payout_amount), lines 146-154: `payout_amount or
\* potential_payout` takes potential_payout for None and for 0.00
mark_as_won(p) ==
    \E b \in BetRows, payout_amount \in PayoutInputs :
       MarkBet(p, "mark_as_won", b, payout_amount, is_pending(bets[b]),
               [bets[b] EXCEPT !.status = "won",
                               !.actual_payout =
                                   IF payout_amount \in {NoPayout, 0}
                                   THEN bets[b].potential_payout ELSE payout_amount])

\* Bet.mark_as_lost, lines 156-164
mark_as_lost(p) ==
    \E b \in BetRows :
       MarkBet(p, "mark_as_lost", b, 0, is_pending(bets[b]),
               [bets[b] EXCEPT !.status = "lost", !.actual_payout = 0])

\* Bet.can_be_cancelled, lines 131-143: pending and, where the event has a
\* start time, not yet started
can_be_cancelled(bet, started) == is_pending(bet) /\ ~started

\* the call reports whether the event had started
Started == 1

\* Bet.mark_as_cancelled, lines 166-173
mark_as_cancelled(p) ==
    \E b \in BetRows, started \in BOOLEAN :
       MarkBet(p, "mark_as_cancelled", b, IF started THEN Started ELSE 0,
               can_be_cancelled(bets[b], started),
               [bets[b] EXCEPT !.status = "cancelled"])

\* Bet.mark_as_void, lines 175-183: no check of the status
mark_as_void(p) ==
    \E b \in BetRows :
       MarkBet(p, "mark_as_void", b, 0, TRUE,
               [bets[b] EXCEPT !.status = "void", !.actual_payout = bets[b].stake])

NextBets ==
    \E p \in Procs :
       \/ process_bet_result(p)
       \/ mark_as_won(p)
       \/ mark_as_lost(p)
       \/ mark_as_cancelled(p)
       \/ mark_as_void(p)

SpecBets == InitBets /\ [][NextBets]_vars

\* ---- placing a bet (src/apps/bets/views.py) ------------------------------
\* line 6: the amount of the POST, within or above the balance
PlaceAmounts == 1..(DefaultBalance + 1)

\* the ids Bet.objects.create can still give out
FreeBetRows == {b \in BetRows : ~bets[b].exists}

\* place_bet_view, lines 4-14 and 24-26: process_bet_placement is the whole
\* call, its debit and its row are committed when it returns; on a failure
\* the view redirects to the dashboard.  The view opens no transaction of
\* its own.
place_bet_view(p) ==
    /\ BetCall(p)
    /\ FreeBetRows # {}
    /\ \E u \in accounts, a \in PlaceAmounts :
         /\ lock[u] = NoProc
         /\ IF ~wallets[u].exists
            THEN /\ Return(p, "place", u, a, Result(FALSE, "Wallet not found", NoTxn))
                 /\ UNCHANGED <<wallets, dirty, txns, ser>>
            ELSE IF ~is_active(Loaded(u))
            THEN /\ Return(p, "place", u, a, Result(FALSE, "Wallet is not active", NoTxn))
                 /\ UNCHANGED <<wallets, dirty, txns, ser>>
            ELSE IF ~has_sufficient_balance(Loaded(u).balance, a)
            THEN /\ Return(p, "place", u, a, Result(FALSE, "Insufficient balance", NoTxn))
                 /\ UNCHANGED <<wallets, dirty, txns, ser>>
            ELSE LET bal == DebitedBalance(dirty[u], Loaded(u).balance, a)
                     t == Txn(u, DEBIT, a, bal, DescriptionOf("pbp"), NoProc)
                 IN /\ dirty' = [dirty EXCEPT ![u] = bal]
                    /\ wallets' = [wallets EXCEPT ![u].balance = bal]
                    /\ txns' = objects_create(txns, t)
                    /\ ser' = [ser EXCEPT ![u] = SerialDebit(ser[u], TRUE, a)]
                    /\ GotoWith(p, "place", u, a, NoBetId, "pv_create", Loaded(u),
                                Result(TRUE, SuccessOf("pbp"), t))
    /\ UNCHANGED <<lock, bets>>

\* place_bet_view, lines 15-23: Bet.objects.create.  The module never imports
\* Bet and Bet has a stake, no amount: where the names resolve (`bound`) the
\* row is created with the amount as its stake, where they do not the
\* statement raises and the view ends with an error response.
PlaceCreate(p) ==
    /\ pc[p] = "pv_create"
    /\ \E bound \in BOOLEAN :
         IF bound
         THEN /\ FreeBetRows # {}
              /\ LET b == CHOOSE x \in FreeBetRows : \A y \in FreeBetRows : x <= y
                 IN bets' = [bets EXCEPT ![b] =
                               [exists |-> TRUE, user |-> usr[p], stake |-> amt[p],
                                potential_payout |-> amt[p] * BetOdds,
                                status |-> "pending", actual_payout |-> 0,
                                settled_at |-> 0]]
              /\ Done(p, Result(TRUE, "Bet placed successfully!", res[p].txn))
         ELSE /\ UNCHANGED bets
              /\ Done(p, Raised("NameError"))
    /\ UNCHANGED <<wallets, dirty, lock, txns, nops, ser, accounts, scen, games, stats, game, st>>

NextPlace ==
    \E p \in Procs :
       \/ place_bet_view(p)
       \/ PlaceCreate(p)
       \/ process_bet_result(p)
       \/ mark_as_won(p)
       \/ mark_as_lost(p)
       \/ mark_as_cancelled(p)
       \/ mark_as_void(p)

SpecPlace == InitPair /\ [][NextPlace]_vars

\* ---- properties -------------------------------------------------------
Debits(u) == SelectSeq(Log(u), LAMBDA r : r.transaction_type = DEBIT)

DebitOps == {"deduct", "withdraw", "pbp"}

CreditOps == {"credit", "add", "pbw"}

\* the sequence T without its i-th element
Without(T, i) == [j \in 1..(Len(T) - 1) |-> IF j < i THEN T[j] ELSE T[j + 1]]

\* the step commits exactly one new row, t, to the log of wallet u
Added(u, t) ==
    LET T == RowsOf(txns', u) IN
    /\ Len(T) = Len(Log(u)) + 1
    /\ \E i \in 1..Len(T) : T[i] = t /\ Without(T, i) = Log(u)

\* the balance after replaying the first i rows of T from zero
RECURSIVE Replay(_, _)
Replay(T, i) ==
    IF i = 0 THEN 0
    ELSE IF T[i].status # COMPLETED THEN Replay(T, i - 1)
    ELSE IF T[i].transaction_type = CREDIT THEN Replay(T, i - 1) + T[i].amount
    ELSE Replay(T, i - 1) - T[i].amount

\* wallet u was made by create_wallet_for_user: its log opens with the deposit
Opened(u) ==
    /\ wallets[u].exists
    /\ Len(Log(u)) > 0
    /\ Log(u)[1].description = "Initial deposit"

\* C1: the balance of a wallet is never negative, whatever debit and credit
\* calls have run and however they interleaved.
C1_BalanceNeverNegative ==
    \A u \in Users : wallets[u].exists => wallets[u].balance >= 0

\* C3: for a wallet made by create_wallet_for_user, replaying the completed
\* rows in creation order from zero gives the stored balance, and each row's
\* balance_after is the running sum up to and including that row.
C3_ReplayGivesBalance ==
    \A u \in Users :
        Opened(u) =>
            /\ Replay(Log(u), Len(Log(u))) = wallets[u].balance
            /\ \A i \in 1..Len(Log(u)) : Log(u)[i].balance_after = Replay(Log(u), i)

C3_Witness ==
    /\ Quiet
    /\ Opened(1)
    /\ Len(Log(1)) = 3
    /\ \E i, j \in 2..3 : /\ Log(1)[i].transaction_type = DEBIT
                          /\ Log(1)[j].transaction_type = CREDIT

\* C4: when the store fails between the balance update and the insert of the
\* row, the call leaves the wallet either as it was (balance and log
\* unchanged) or fully changed (balance moved by the amount and one row with
\* that balance_after added): never a changed balance without its row.
C4_AllOrNothing ==
    [][(ret'.proc # NoProc /\ ret'.op \in DebitOps \cup CreditOps) =>
         LET u == ret'.usr
             a == ret'.amt
         IN \/ /\ wallets'[u].balance = wallets[u].balance
               /\ RowsOf(txns', u) = Log(u)
            \/ /\ wallets'[u].balance =
                      IF ret'.op \in DebitOps THEN wallets[u].balance - a
                                              ELSE wallets[u].balance + a
               /\ \E i \in 1..Len(txns') :
                      /\ txns'[i].balance_after = wallets'[u].balance
                      /\ Added(u, txns'[i])]_vars

\* C5: every step that changes the balance of a wallet adds exactly one row
\* to its log, with balance_after equal to the new balance; nothing writes a
\* balance in any other way.
C5_EveryChangeLogged ==
    [][\A u \in Users :
         (wallets[u].exists /\ wallets'[u].balance # wallets[u].balance) =>
             \E i \in 1..Len(txns') :
                 /\ txns'[i].balance_after = wallets'[u].balance
                 /\ Added(u, txns'[i])]_vars

\* C6: concurrent debit and credit calls on a wallet leave the balance, and
\* give every row the balance_after, that the same calls give when run one
\* after the other in the order they took the row lock.
C6_SerialEquivalence ==
    \A u \in Users :
        wallets[u].exists =>
            /\ lock[u] = NoProc => wallets[u].balance = ser[u]
            /\ \A p \in Procs :
                   (pc[p] = "commit" /\ usr[p] = u /\ res[p].ok) =>
                       res[p].txn.balance_after = ser[u]

\* C7: the insufficient-funds check is made against the stored balance while
\* the lock is held: a debit that goes on to the UPDATE has an amount no
\* larger than the balance the UPDATE finds, so two debits that sum to more
\* than the balance cannot both succeed.
C7_CheckedAgainstStored ==
    [][\A p \in Procs :
         (pc[p] = "deduct" /\ pc'[p] = "insert") => amt[p] <= dirty[usr[p]]]_vars

C9_DeductEffect ==
    [][(ret'.proc # NoProc /\ ret'.op \in DebitOps /\ ret'.res.ok) =>
         LET u == ret'.usr
             a == ret'.amt
             t == ret'.res.txn
         IN /\ wallets'[u].balance = wallets[u].balance - a
            /\ t.wallet = u
            /\ t.transaction_type = DEBIT
            /\ t.status = COMPLETED
            /\ t.amount = a
            /\ t.balance_after = wallets'[u].balance
            /\ Added(u, t)]_vars

C9_Witness ==
    /\ ret.op = "deduct"
    /\ ret.res.ok
    /\ ret.res.txn.transaction_type = DEBIT
    /\ ret.res.txn.balance_after = wallets[ret.usr].balance
    /\ Len(Log(ret.usr)) > 0
    /\ Log(ret.usr)[Len(Log(ret.usr))] = ret.res.txn

\* C10: a successful Wallet.credit raises the balance by exactly the amount,
\* adds exactly one CREDIT row, COMPLETED, of that amount, whose balance_after
\* is the balance after the increment, and returns that row.
C10_CreditEffect ==
    [][(ret'.proc # NoProc /\ ret'.op \in CreditOps /\ ret'.res.ok) =>
         LET u == ret'.usr
             a == ret'.amt
             t == ret'.res.txn
         IN /\ wallets'[u].balance = wallets[u].balance + a
            /\ t.wallet = u
            /\ t.transaction_type = CREDIT
            /\ t.status = COMPLETED
            /\ t.amount = a
            /\ t.balance_after = wallets'[u].balance
            /\ Added(u, t)]_vars

C10_Witness ==
    /\ ret.op = "credit"
    /\ ret.res.ok
    /\ ret.res.txn.transaction_type = CREDIT
    /\ ret.res.txn.balance_after = wallets[ret.usr].balance
    /\ Len(Log(ret.usr)) > 0
    /\ Log(ret.usr)[Len(Log(ret.usr))] = ret.res.txn

OpeningRows(T, u) == SelectSeq(RowsOf(T, u), LAMBDA r : r.description = "Initial deposit")

C12_EveryWalletOpened ==
    \A u \in Users :
        (wallets[u].exists /\ \A p \in Procs : ~(pc[p] = "cw_txn" /\ usr[p] = u)) =>
            /\ Len(OpeningRows(txns, u)) = 1
            /\ OpeningRows(txns, u)[1].transaction_type = CREDIT
            /\ OpeningRows(txns, u)[1].amount = OpeningRows(txns, u)[1].balance_after

\* the call that returns in this step is o, on the existing wallet of its user
Returns(o) ==
    /\ ret'.proc # NoProc
    /\ ret'.op = o
    /\ wallets[ret'.usr].exists

\* the step leaves the wallet row and the committed log of user u as they were
Untouched(u) ==
    /\ wallets'[u] = wallets[u]
    /\ RowsOf(txns', u) = Log(u)

\* C13 as stated: process_bet_placement with an amount above the balance of
\* the wallet returns success = false, the insufficient-balance message and no
\* transaction, and leaves balance and log unchanged.
C13_AsStated ==
    [][(Returns("pbp") /\ ret'.amt > wallets[ret'.usr].balance) =>
         /\ ~ret'.res.ok
         /\ ret'.res.msg = "Insufficient balance"
         /\ ret'.res.txn = NoTxn
         /\ Untouched(ret'.usr)]_vars

\* C13: process_bet_placement on an active wallet with an amount above its
\* balance returns success = false, the insufficient-balance message and no
\* transaction, and leaves balance and log unchanged.
C13_InsufficientBet ==
    [][(Returns("pbp") /\ wallets[ret'.usr].is_active
          /\ ret'.amt > wallets[ret'.usr].balance) =>
         /\ ~ret'.res.ok
         /\ ret'.res.msg = "Insufficient balance"
         /\ ret'.res.txn = NoTxn
         /\ Untouched(ret'.usr)]_vars

C13_Witness ==
    /\ ret.op = "pbp"
    /\ ~ret.res.ok
    /\ ret.res.msg = "Insufficient balance"
    /\ wallets[ret.usr].is_active
    /\ ret.amt > wallets[ret.usr].balance
    /\ wallets[ret.usr].balance > 0

\* C14: process_bet_placement on an active wallet whose balance covers the
\* amount returns success = true with a transaction, lowers the balance by
\* exactly the amount, and adds exactly one DEBIT row whose balance_after is
\* the new balance.
C14_BetPlaced ==
    [][(Returns("pbp") /\ wallets[ret'.usr].is_active
          /\ ret'.amt <= wallets[ret'.usr].balance) =>
         LET u == ret'.usr
             t == ret'.res.txn
         IN /\ ret'.res.ok
            /\ ret'.res.msg = "Bet placed successfully"
            /\ t # NoTxn
            /\ wallets'[u].balance = wallets[u].balance - ret'.amt
            /\ t.transaction_type = DEBIT
            /\ t.amount = ret'.amt
            /\ t.balance_after = wallets'[u].balance
            /\ Added(u, t)]_vars

C14_Witness ==
    /\ ret.op = "pbp"
    /\ ret.res.ok
    /\ ret.res.txn.transaction_type = DEBIT
    /\ ret.res.txn.balance_after = wallets[ret.usr].balance
    /\ \E i \in 1..Len(Log(ret.usr)) : Log(ret.usr)[i] = ret.res.txn

\* C15: process_bet_winning on an active wallet returns success = true,
\* raises the balance by exactly the amount and adds exactly one CREDIT row;
\* whenever a bet id is passed (any id other than None), the description of
\* that row references the bet id.
C15_WinningCredited ==
    [][(Returns("pbw") /\ wallets[ret'.usr].is_active) =>
         LET u == ret'.usr
             t == ret'.res.txn
             b == bet_id[ret'.proc]
         IN /\ ret'.res.ok
            /\ wallets'[u].balance = wallets[u].balance + ret'.amt
            /\ t.transaction_type = CREDIT
            /\ t.amount = ret'.amt
            /\ Added(u, t)
            /\ b # NoBetId => t.description = BetTag(b)]_vars

\* C16: process_bet_placement and process_bet_winning on a wallet whose
\* is_active is false return success = false and no transaction, and leave
\* the balance and the log unchanged.
C16_InactiveRefused ==
    [][\A o \in {"pbp", "pbw"} :
         (Returns(o) /\ ~wallets[ret'.usr].is_active) =>
             /\ ~ret'.res.ok
             /\ ret'.res.msg = "Wallet is not active"
             /\ ret'.res.txn = NoTxn
             /\ Untouched(ret'.usr)]_vars

C16_Witness ==
    /\ ret.op = "pbw"
    /\ ~ret.res.ok
    /\ ret.res.msg = "Wallet is not active"
    /\ wallets[ret.usr].exists
    /\ ~wallets[ret.usr].is_active

\* C17: while is_active of a wallet is false, no operation open to callers
\* (process_bet_placement, process_bet_winning, add_funds, withdraw_funds,
\* the home view) changes its balance or adds a row to its log.
C17_InactiveFrozen ==
    [][\A o \in {"pbp", "pbw", "add", "withdraw", "home"} :
         (Returns(o) /\ ~wallets[ret'.usr].is_active) =>
             /\ wallets'[ret'.usr].balance = wallets[ret'.usr].balance
             /\ RowsOf(txns', ret'.usr) = Log(ret'.usr)]_vars

\* C18: process_bet_placement and process_bet_winning never raise: every
\* call, one that fails inside deduct / credit included, returns a triple
\* (success, message, transaction) whose transaction is there exactly when
\* success is true.
C18_ServiceNeverRaises ==
    [][\A o \in {"pbp", "pbw"} :
         (ret'.proc # NoProc /\ ret'.op = o) =>
             /\ ~ret'.res.raised
             /\ ret'.res.ok <=> ret'.res.txn # NoTxn]_vars

C18_Witness ==
    /\ ret.op = "pbw"
    /\ ret.res.msg = "store failure"
    /\ ~ret.res.raised
    /\ ~ret.res.ok
    /\ ret.res.txn = NoTxn

\* C19: every Transaction row has an amount strictly above zero, the opening
\* row of create_wallet_for_user for any initial_balance and the rows of
\* deduct / credit for any amount included.
C19_AmountsPositive ==
    \A i \in 1..Len(txns) : txns[i].amount > 0

\* C20: a debit or credit called with an amount of zero or less fails, and
\* leaves the balance and the log unchanged: a negative credit cannot lower
\* the balance and a negative debit cannot raise it.
C20_BadAmountRefused ==
    [][\A o \in DebitOps \cup CreditOps :
         (Returns(o) /\ ret'.amt <= 0) =>
             /\ ~ret'.res.ok
             /\ Untouched(ret'.usr)]_vars

\* C21: the log is append-only.  Every step keeps each row that was there, in
\* place and with the same content (a commit only makes it visible), and adds
\* at most one row; a row is added only by the call that made the wallet, or
\* by a debit / credit call that has changed the balance of that wallet.
C21_AppendOnly ==
    [][/\ Len(txns') \in {Len(txns), Len(txns) + 1}
       /\ \A i \in 1..Len(txns) : Committed(txns'[i]) = Committed(txns[i])
       /\ Len(txns') = Len(txns) + 1 =>
              LET u == txns'[Len(txns')].wallet IN
              \/ \E p \in Procs : /\ pc[p] = "cw_txn" /\ op[p] = "create" /\ usr[p] = u
                                  /\ txns'[Len(txns')].description = "Initial deposit"
              \/ \E p \in Procs : /\ pc[p] = "insert" /\ usr[p] = u
                                  /\ op[p] \in DebitOps \cup CreditOps
                                  /\ lock[u] = p
                                  /\ dirty[u] # wallets[u].balance
              \/ /\ ret'.op \in {"deduct", "credit"} /\ ret'.usr = u
                 /\ wallets'[u].balance # wallets[u].balance]_vars

C21_Witness ==
    /\ Len(txns) = 3
    /\ txns[1].description = "Initial deposit"
    /\ txns[2].owner = NoProc
    /\ txns[3].owner # NoProc
    /\ txns[3].transaction_type = DEBIT

\* C22: process_bet_placement and process_bet_winning for a user who has no
\* wallet return (false, "Wallet not found", no transaction), without raising,
\* and create neither a wallet nor a row.
C22_MissingWalletReported ==
    [][\A o \in {"pbp", "pbw"} :
         (ret'.proc # NoProc /\ ret'.op = o /\ ~wallets[ret'.usr].exists) =>
             /\ ~ret'.res.raised
             /\ ~ret'.res.ok
             /\ ret'.res.msg = "Wallet not found"
             /\ ret'.res.txn = NoTxn
             /\ wallets' = wallets
             /\ txns' = txns]_vars

C22_Witness ==
    /\ ret.op = "pbw"
    /\ ret.res.msg = "Wallet not found"
    /\ ~wallets[ret.usr].exists
    /\ txns = <<>>

\* every row of wallet u among the rows T, committed or not
AllRowsOf(T, u) == SelectSeq(T, LAMBDA r : r.wallet = u)

\* the step is one of a call on the wallet of user u
StepOn(u) ==
    \/ ret'.proc # NoProc /\ ret'.usr = u
    \/ \E p \in Procs : pc'[p] # "idle" /\ usr'[p] = u /\ pc'[p] # pc[p]

\* process p waits for nothing but the row of its own wallet
NotBlocked(p) ==
    /\ (pc[p] = "select" /\ lock[usr[p]] = NoProc) => ENABLED Select(p)
    /\ (pc[p] = "deduct" /\ lock[usr[p]] \in {NoProc, p}) => ENABLED Deduct(p)
    /\ (pc[p] = "credit" /\ lock[usr[p]] \in {NoProc, p}) => ENABLED Credit(p)

\* C23: a step of a debit / credit call on one wallet leaves the balance,
\* the is_active flag, the row lock and the rows of every other wallet as
\* they were, and a call is never kept waiting by a lock on another wallet.
C23_OtherWalletsUntouched ==
    /\ [][\A v \in Users :
            StepOn(v) \/ /\ wallets'[v] = wallets[v]
                         /\ dirty'[v] = dirty[v]
                         /\ lock'[v] = lock[v]
                         /\ AllRowsOf(txns', v) = AllRowsOf(txns, v)]_vars
    /\ [](\A p \in Procs : NotBlocked(p))

C23_Witness ==
    /\ lock[1] = 1 /\ pc[1] = "insert"
    /\ pc[2] = "commit" /\ usr[2] = 2 /\ lock[2] = 2
    /\ dirty[2] # wallets[2].balance

\* the call of process p is at a statement that needs the row lock
Waiting(p) ==
    \/ pc[p] \in {"select", "dice_select", "credit"}
    \/ pc[p] = "deduct" /\ has_sufficient_balance(w[p].balance, amt[p])

\* C24: a row lock is held only by a call in progress on that wallet, so it
\* is released when the call commits or aborts, on success and on failure;
\* under fair scheduling every debit / credit call that has started returns,
\* and every call that waits for the row lock of its wallet gets it.
C24_LockReleased ==
    /\ [](\A u \in Users :
            lock[u] # NoProc => pc[lock[u]] # "idle" /\ usr[lock[u]] = u)
    /\ \A p \in Procs : (pc[p] # "idle") ~> (pc[p] = "idle")
    /\ \A p \in Procs : Waiting(p) ~> (lock[usr[p]] = p)

\* two calls are in progress, one holds the row lock and has failed, the
\* other waits for it
C24_Witness ==
    \E p, q \in Procs :
        /\ lock[1] = p /\ pc[p] = "commit" /\ ~res[p].ok
        /\ pc[q] \in {"select", "dice_select"}

ReadOps == {"summary", "history"}

\* the step is one of a read call
ReadStep ==
    \/ ret'.proc # NoProc /\ ret'.op \in ReadOps
    \/ \E p \in Procs : pc'[p] # pc[p] /\ op'[p] \in ReadOps

\* C25: get_wallet_summary and get_transaction_history write nothing: every
\* step of theirs leaves all wallets and all rows as they were, and makes no
\* wallet; for a user without a wallet they return None and the empty
\* sequence, and do not raise.
C25_ReadsOnly ==
    [][ReadStep =>
         /\ wallets' = wallets
         /\ dirty' = dirty
         /\ lock' = lock
         /\ txns' = txns
         /\ (ret'.proc # NoProc /\ ~wallets[ret'.usr].exists) =>
                /\ ~ret'.res.raised
                /\ ret'.op = "summary" => ret'.res.msg = "None" /\ ret'.res.value = NoSummary
                /\ ret'.op = "history" => ret'.res.msg = "[]" /\ ret'.res.value = <<>>]_vars

C25_Witness ==
    /\ ret.op = "summary"
    /\ ret.res.msg = "None"
    /\ ~wallets[ret.usr].exists
    /\ txns = <<>>

\* C26: get_transaction_history(user, limit), limit >= 0, returns
\* min(limit, total) rows, all of the wallet of that user, the most recently
\* created ones, the newest first.
C26_HistoryPage ==
    [][(Returns("history") /\ ret'.amt >= 0) =>
         LET u == ret'.usr
             limit == ret'.amt
             total == Len(Log(u))
             page == ret'.res.value
         IN /\ ~ret'.res.raised
            /\ Len(page) = IF limit < total THEN limit ELSE total
            /\ \A i \in 1..Len(page) :
                   /\ page[i].wallet = u
                   /\ page[i] = Log(u)[total + 1 - i]]_vars

C26_Witness ==
    /\ ret.op = "history"
    /\ ret.amt = 1
    /\ Len(Log(ret.usr)) = 2
    /\ Len(ret.res.value) = 1
    /\ ret.res.value[1] = Log(ret.usr)[2]
    /\ ret.res.value[1].transaction_type = DEBIT
    /\ \E i \in 1..Len(txns) : txns[i].wallet # ret.usr

\* the sum of the amounts of the committed COMPLETED rows of wallet u of the
\* given type
TotalOf(u, type) ==
    LET rows == SelectSeq(Log(u), LAMBDA r : r.transaction_type = type
                                             /\ r.status = COMPLETED)
    IN SumAmount(rows, Len(rows))

\* the call that returns in this step is get_wallet_summary, with a summary
SummaryReturns ==
    /\ Returns("summary")
    /\ ret'.res.msg = "summary"

\* C27 as stated: in the summary that get_wallet_summary returns,
\* total_deposited is the sum of the COMPLETED CREDIT amounts of the wallet
\* and total_withdrawn the sum of its COMPLETED DEBIT amounts, and their
\* difference is the reported balance (wallet made by create_wallet_for_user).
C27_AsStated ==
    [][(SummaryReturns /\ Len(OpeningRows(txns, ret'.usr)) = 1) =>
         LET u == ret'.usr
             summary == ret'.res.value
         IN /\ summary.total_deposited = TotalOf(u, CREDIT)
            /\ summary.total_withdrawn = TotalOf(u, DEBIT)
            /\ summary.total_deposited - summary.total_withdrawn = summary.balance]_vars

\* the values a summary in progress has read are those the store holds now:
\* nothing was committed to the wallet since the summary loaded it
StillCurrent(p) ==
    LET u == usr[p]
        summary == res[p].value
    IN /\ summary.balance = wallets[u].balance
       /\ summary.total_deposited = TotalOf(u, CREDIT)
       /\ summary.total_withdrawn = TotalOf(u, DEBIT)

\* C27: each total of the summary is the sum of the COMPLETED amounts of its
\* type (0 when there is none) at the moment its query runs; for a wallet made
\* by create_wallet_for_user whose opening row is written, total_deposited -
\* total_withdrawn is the reported balance when nothing is committed to the
\* wallet while the summary is computed.
C27_SummaryTotals ==
    [][/\ \A p \in Procs :
            /\ (pc[p] = "gs_deposited" /\ pc'[p] = "gs_withdrawn") =>
                   res'[p].value.total_deposited = TotalOf(usr[p], CREDIT)
            /\ (pc[p] = "gs_withdrawn" /\ pc'[p] = "gs_count") =>
                   res'[p].value.total_withdrawn = TotalOf(usr[p], DEBIT)
            /\ (pc[p] = "gs_count" /\ pc'[p] = "idle" /\ StillCurrent(p)
                   /\ Len(OpeningRows(txns, usr[p])) = 1) =>
                   /\ ret'.res.value =
                          [res[p].value EXCEPT !.transaction_count = Len(Log(usr[p]))]
                   /\ ret'.res.value.total_deposited - ret'.res.value.total_withdrawn
                          = ret'.res.value.balance]_vars

C27_Witness ==
    /\ ret.op = "summary"
    /\ ret.res.msg = "summary"
    /\ ret.res.value.total_deposited = 2
    /\ ret.res.value.total_withdrawn = 1
    /\ ret.res.value.balance = 1
    /\ ret.res.value.transaction_count = 2
    /\ ret.res.value.balance = wallets[ret.usr].balance

\* the request o of amount a, on a wallet of the given balance, is a bad one
BadRequest(o, a, balance) ==
    \/ a <= 0
    \/ o = "add" /\ a > MaxDeposit
    \/ o = "withdraw" /\ a > balance

\* C28: add_funds with an amount <= 0 or above 10000, and withdraw_funds with
\* an amount <= 0 or above the balance, answer with an error and leave the
\* balance and the log unchanged; a request that is accepted changes the
\* balance by exactly its amount and adds one row.
C28_FundsValidated ==
    [][/\ \A p \in Procs :
            (pc[p] = "idle" /\ pc'[p] # "idle" /\ op'[p] \in {"add", "withdraw"}) =>
                ~BadRequest(op'[p], amt'[p], wallets[usr'[p]].balance)
       /\ \A o \in {"add", "withdraw"} :
            /\ (Returns(o) /\ pc[ret'.proc] = "idle"
                   /\ BadRequest(o, ret'.amt, wallets[ret'.usr].balance)) =>
                   /\ ~ret'.res.ok
                   /\ ret'.res.txn = NoTxn
                   /\ Untouched(ret'.usr)
                   /\ dirty' = dirty
            /\ (Returns(o) /\ pc[ret'.proc] # "idle") =>
                   LET u == ret'.usr IN
                   /\ ret'.res.ok
                   /\ wallets'[u].balance =
                          IF o = "add" THEN wallets[u].balance + ret'.amt
                                       ELSE wallets[u].balance - ret'.amt
                   /\ ret'.res.txn.amount = ret'.amt
                   /\ Added(u, ret'.res.txn)]_vars

C28_Witness ==
    /\ ret.op = "add"
    /\ ret.amt = MaxDeposit + 1
    /\ ~ret.res.ok
    /\ \E i \in 1..Len(Log(1)) : /\ Log(1)[i].amount = MaxDeposit
                                 /\ Log(1)[i].description = "Deposit"

\* C29: create_wallet_for_user calls for one user that run at once leave one
\* wallet with one opening row, and only the call that made the wallet
\* reports created = true; in no state, one after a failure between the
\* insert of the wallet and the insert of the row included, is there a
\* wallet with a balance other than zero and no opening row.
C29_CreateAtomic ==
    /\ [](\A u \in Users :
            /\ Len(OpeningRows(txns, u)) <= 1
            /\ (wallets[u].exists /\ wallets[u].balance # 0) =>
                   Len(OpeningRows(txns, u)) = 1)
    /\ [][(ret'.proc # NoProc /\ ret'.op = "create" /\ ret'.res.msg = "created") =>
            /\ pc[ret'.proc] = "cw_txn"
            /\ \A q \in Procs \ {ret'.proc} : ~(pc[q] = "cw_txn" /\ usr[q] = ret'.usr)]_vars

\* the rows that credit the winnings of bet b
WinningRows(T, b) ==
    SelectSeq(T, LAMBDA r : r.transaction_type = CREDIT /\ r.description = BetTag(b))

MarkOps == {"mark_as_won", "mark_as_lost", "mark_as_cancelled", "mark_as_void"}

\* C31: once a bet is settled (won, lost, cancelled or void), no mark_as_won,
\* mark_as_lost, mark_as_cancelled or mark_as_void call changes its status
\* or its actual_payout, and it never returns to pending.
C31_SettledIsFinal ==
    [][\A b \in BetRows :
         (is_settled(bets[b]) /\ ret'.op \in MarkOps) =>
             /\ bets'[b].status = bets[b].status
             /\ bets'[b].actual_payout = bets[b].actual_payout]_vars

\* the payout the caller of mark_as_won asked for
GivenPayout(a, bet) == IF a = NoPayout THEN bet.potential_payout ELSE a

\* C32: mark_as_won, mark_as_lost and mark_as_cancelled take effect only on
\* a pending bet (cancellation only before the event's start); on any other
\* bet they raise ValueError and leave the bet as it is.  On success
\* mark_as_won sets actual_payout to the given payout (potential_payout when
\* none is given) and mark_as_lost sets it to 0.
C32_MarkEffects ==
    [][\A b \in BetRows :
         LET o == ret'.op
             refused == ~is_pending(bets[b]) \/ (o = "mark_as_cancelled" /\ ret'.amt = Started)
         IN o \in {"mark_as_won", "mark_as_lost", "mark_as_cancelled"} =>
              IF refused
              THEN ret'.res.raised /\ ret'.res.msg = "ValueError" /\ bets'[b] = bets[b]
              ELSE /\ ~ret'.res.raised
                   /\ o = "mark_as_won" =>
                        /\ bets'[b].status = "won"
                        /\ bets'[b].actual_payout = GivenPayout(ret'.amt, bets[b])
                   /\ o = "mark_as_lost" =>
                        bets'[b].status = "lost" /\ bets'[b].actual_payout = 0
                   /\ o = "mark_as_cancelled" => bets'[b].status = "cancelled"]_vars

\* the committed debits of bets placed by user u
PlacedRows(T, u) ==
    SelectSeq(T, LAMBDA r : r.wallet = u /\ r.transaction_type = DEBIT
                            /\ r.description = DescriptionOf("pbp") /\ r.owner = NoProc)

BetsOf(u) == {b \in BetRows : bets[b].exists /\ bets[b].user = u}

\* C33: in place_bet_view the wallet debit and the creation of the Bet record
\* are all-or-nothing: in no reachable state has a stake been debited from
\* the wallet while no Bet record exists for it.
C33_DebitHasBet ==
    \A u \in Users : Len(PlacedRows(txns, u)) <= Cardinality(BetsOf(u))

\* the outcome of the dice bet that process p is about to commit
DiceWon(p) == check_win(game[p].bet_type, game[p].bet_value, game[p].dice_result)

DicePayout(p) == IF DiceWon(p) THEN amt[p] * PAYOUTS(game[p].bet_type) ELSE 0

\* C34: DiceGameService.place_bet is one atomic unit.  When a call succeeds
\* the balance changes by payout - bet_amount on a win (payout = bet_amount *
\* multiplier of the bet type) and by -bet_amount on a loss, and exactly one
\* game record, WON or LOST, exists for the call; no other step changes the
\* wallet, the game records or the stats, and a failed call leaves none of
\* its writes behind.
C34_DiceAtomic ==
    [][LET p == ret'.proc
           u == usr[p]
       IN IF ret'.op = "dice" /\ ret'.res.ok
          THEN /\ wallets'[u].balance = wallets[u].balance + DicePayout(p) - amt[p]
               /\ \A v \in Users \ {u} : wallets'[v] = wallets[v]
               /\ CommittedGames(games') =
                      Append(CommittedGames(games),
                             [user |-> u, bet_amount |-> amt[p],
                              bet_type |-> game[p].bet_type,
                              payout_amount |-> DicePayout(p),
                              status |-> IF DiceWon(p) THEN "WON" ELSE "LOST",
                              owner |-> NoProc])
               /\ \A i \in 1..Len(games') : games'[i].owner # p
          ELSE /\ wallets' = wallets
               /\ CommittedGames(games') = CommittedGames(games)
               /\ stats' = stats
               /\ ret'.op = "dice" =>
                    /\ \A i \in 1..Len(games') : games'[i].owner # p
                    /\ \A i \in 1..Len(txns') : txns'[i].owner # p
                    /\ \A v \in Users : lock'[v] # p
                    /\ \A v \in Users : lock'[v] = NoProc => dirty'[v] = wallets'[v].balance]_vars

\* a bet on the number 3 has won: the balance went from the opening balance
\* to the opening balance + 6 * 1 - 1
C34_Witness ==
    /\ ret.op = "dice" /\ ret.res.ok /\ ret.res.msg = "WON" /\ ret.amt = 1
    /\ wallets[1].balance = DefaultBalance + 5
    /\ Len(games) = 1 /\ games[1].status = "WON" /\ games[1].bet_type = "SINGLE"
    /\ stats[1].total_wins = 1

\* the settled games of user u
SettledGames(u) ==
    SelectSeq(CommittedGames(games), LAMBDA r : r.user = u /\ r.status \in {"WON", "LOST"})

\* C35: after any update_stats calls for a user, concurrent ones included,
\* total_games = total_wins + total_losses, 0 <= current_streak <= win_streak
\* and total_games is the number of settled games of the user; after a loss
\* current_streak is 0.
C35_StatsConsistent ==
    /\ [](\A u \in Users :
            /\ stats[u].total_games = stats[u].total_wins + stats[u].total_losses
            /\ 0 <= stats[u].current_streak
            /\ stats[u].current_streak <= stats[u].win_streak
            /\ stats[u].total_games = Len(SettledGames(u)))
    /\ [][(ret'.op = "dice" /\ ret'.res.ok /\ ret'.res.msg = "LOST") =>
             stats'[ret'.usr].current_streak = 0]_vars

\* a call has updated the stats of user 1 while a concurrent call of the same
\* user waits for the wallet row
C35_Witness ==
    /\ ret.op = "dice" /\ ret.res.ok /\ ret.usr = 1
    /\ stats[1].total_games = 1
    /\ \E q \in Procs : pc[q] = "dice_select" /\ usr[q] = 1

====
